---------------------------- MODULE Spec2Model ----------------------------
(***************************************************************************)
(* A model of datascience_core.data_transformation._transformers:          *)
(*   - TierMapper (_unmap_score, map_score, process, score_to_tier)        *)
(*   - CategoricalColumnSplitter (_split_categorical_column, process)      *)
(*   - ColumnRenamer (__init__, process)                                   *)
(*   - ColumnDotRenamer, LowerCaseTransformer, ColumnFiller                *)
(*   - DominatedColumnDropper, GranularColumnDropper (process)             *)
(*     (__init__, process) and is_data_size_small, PreprocessingError      *)
(* and of the pipeline executor the package exports from _data_pipe:       *)
(*   - DataFramePipe (sequential run)                                      *)
(*   - run_pipeline_with_multi_threading (fan-out run)                     *)
(*                                                                         *)
(* Python floats are modelled as exact rationals <<numerator, denominator>>*)
(* in lowest terms with a positive denominator, so the arithmetic of the   *)
(* model is the real-valued arithmetic the float code approximates.        *)
(* Python dicts are modelled as sequences of <<key, value>> pairs in       *)
(* insertion order with unique keys.  Python str values that the code      *)
(* inspects by content (column names) are sequences of characters.         *)
(* A call's outcome is a record: [exc |-> "none", val |-> v] when the call *)
(* returned v, [exc |-> e] when the exception named e escaped from it.     *)
(***************************************************************************)
EXTENDS Integers, Sequences, FiniteSets, TLC

VARIABLES
    previous_tier_boundaries,      \* TierMapper.previous_tier_boundaries (dict)
    new_tier_boundaries,           \* TierMapper.new_tier_boundaries (dict)
    tier_boundaries,               \* the dict a caller hands to score_to_tier
    tier_call,                     \* the last TierMapper call: [op, score, ret]
    col_series,                    \* the Series given to _split_categorical_column
    series_ret,                    \* what _split_categorical_column returned
    categorical_columns_to_split,  \* CategoricalColumnSplitter configuration
    df_in,                         \* the caller's DataFrame object
    df_before,                     \* the cells of df_in when process was called
    split_ret,                     \* outcome of CategoricalColumnSplitter.process
    renamer,                       \* the ColumnRenamer instance, if one exists
    renamer_ret,                   \* outcome of the last ColumnRenamer call
    transformer,                   \* an instance of a transformer that takes fmt
    transformer_ret,               \* outcome of the last call on that transformer
    pipe_transforms,               \* the transforms a pipeline was built with
    pipe_input,                    \* the dataset handed to the pipeline run
    pipe_data,                     \* the dataset flowing through a sequential run
    pipe_pc,                       \* position of the next transform of the run
    pipe_log,                      \* positions of the transforms applied so far
    pipe_ret,                      \* outcome of the sequential run
    fan_pc,                        \* per branch: pending, running, done, failed
    fan_out,                       \* per branch: the outcome of its transform
    fan_order,                     \* the branches in the order they completed
    fan_ret,                       \* outcome of the fan-out run
    dom_dropper,                   \* the DominatedColumnDropper instance
    dom_ret,                       \* outcome of its last process call
    gran_dropper,                  \* the GranularColumnDropper instance
    gran_ret                       \* outcome of its last process call

vars == <<previous_tier_boundaries, new_tier_boundaries, tier_boundaries,
          tier_call, col_series, series_ret, categorical_columns_to_split,
          df_in, df_before, split_ret, renamer, renamer_ret, transformer,
          transformer_ret, pipe_transforms, pipe_input, pipe_data, pipe_pc,
          pipe_log, pipe_ret, fan_pc, fan_out, fan_order, fan_ret,
          dom_dropper, dom_ret, gran_dropper, gran_ret>>

tierVars == <<previous_tier_boundaries, new_tier_boundaries, tier_boundaries,
              tier_call>>
splitVars == <<col_series, series_ret, categorical_columns_to_split, df_in,
               df_before, split_ret>>
renamerVars == <<renamer, renamer_ret>>
fmtVars == <<transformer, transformer_ret>>
pipeVars == <<pipe_transforms, pipe_input, pipe_data, pipe_pc, pipe_log,
              pipe_ret, fan_pc, fan_out, fan_order, fan_ret>>
dropperVars == <<dom_dropper, dom_ret, gran_dropper, gran_ret>>

-----------------------------------------------------------------------------
(* Bounds of the model *)

\* schemes of the mapper take their boundaries from the grid k/GridDen
GridDen == 8
\* scores are drawn from the grid k/ScoreDen (and from the boundaries in use)
ScoreDen == 8
\* the dicts handed to score_to_tier have at most MaxTiers entries, with
\* values on the grid k/TierDen from -1/TierDen to (TierDen + 2)/TierDen
MaxTiers == 3
TierDen == 4
\* the longest Series handed to _split_categorical_column
MaxRows == 2
\* the widest DataFrame and the longest configured column list
MaxCols == 2
MaxCfg == 2
\* the thresholds of the column droppers lie on the grid k/ThreshDen
ThreshDen == 4

-----------------------------------------------------------------------------
(* Outcomes of a call *)

Ret(v) == [exc |-> "none", val |-> v]
Raise(e) == [exc |-> e]
NoCall == [op |-> "none"]

-----------------------------------------------------------------------------
(* Exact rational arithmetic standing for Python float arithmetic *)

Abs(n) == IF n < 0 THEN -n ELSE n

RECURSIVE GCD(_, _)
GCD(a, b) == IF b = 0 THEN a ELSE GCD(b, a % b)

Rat(n, d) ==
    LET g == GCD(Abs(n), Abs(d))
        s == IF d < 0 THEN -1 ELSE 1
    IN  <<(s * n) \div g, (s * d) \div g>>

\* sums and products are taken over the least common denominator and after
\* cross-cancelling, comparisons by continued-fraction expansion, so that no
\* intermediate value leaves the range of the checker's integers
RAdd(a, b) ==
    LET g == GCD(a[2], b[2])
    IN  Rat(a[1] * (b[2] \div g) + b[1] * (a[2] \div g), (a[2] \div g) * b[2])
RSub(a, b) ==
    LET g == GCD(a[2], b[2])
    IN  Rat(a[1] * (b[2] \div g) - b[1] * (a[2] \div g), (a[2] \div g) * b[2])
RMul(a, b) ==
    LET g1 == GCD(Abs(a[1]), b[2])
        g2 == GCD(Abs(b[1]), a[2])
    IN  Rat((a[1] \div g1) * (b[1] \div g2), (a[2] \div g2) * (b[2] \div g1))
RDiv(a, b) == RMul(a, Rat(b[2], b[1]))

RECURSIVE RLe(_, _)
RLe(a, b) ==
    LET fa == a[1] \div a[2]
        fb == b[1] \div b[2]
        ra == a[1] - fa * a[2]
        rb == b[1] - fb * b[2]
    IN  IF fa # fb THEN fa < fb
        ELSE IF ra = 0 THEN TRUE
        ELSE IF rb = 0 THEN FALSE
        ELSE RLe(<<b[2], rb>>, <<a[2], ra>>)
RLt(a, b) == ~RLe(b, a)
RZero == <<0, 1>>
ROne == <<1, 1>>

-----------------------------------------------------------------------------
(* Python dict: insertion-ordered <<key, value>> pairs *)

DictKeys(d) == [i \in 1..Len(d) |-> d[i][1]]
DictValues(d) == [i \in 1..Len(d) |-> d[i][2]]
HasKey(d, k) == \E i \in 1..Len(d) : d[i][1] = k
DictGet(d, k) == d[CHOOSE i \in 1..Len(d) : d[i][1] = k][2]

\* d[k] = v: an existing key keeps its position, a new key goes last
DictSet(d, k, v) ==
    IF HasKey(d, k)
    THEN [i \in 1..Len(d) |-> IF d[i][1] = k THEN <<k, v>> ELSE d[i]]
    ELSE Append(d, <<k, v>>)

-----------------------------------------------------------------------------
(* TierMapper *)

TierNames == <<"Tier1", "Tier2", "Tier3", "Tier4", "Tier5", "Tier6", "Tier7">>

\* the fixed_boundaries literal of _unmap_score
fixed_boundaries ==
    << <<"Tier1", <<1, 4>> >>, <<"Tier2", <<2, 5>> >>, <<"Tier3", <<1, 2>> >>,
       <<"Tier4", <<3, 5>> >>, <<"Tier5", <<13, 20>> >>, <<"Tier6", <<3, 4>> >>,
       <<"Tier7", <<1, 1>> >> >>

\* a mistyped literal: Tier2 at 0.45
map_fixed_boundaries_typo ==
    << <<"Tier1", <<1, 4>> >>, <<"Tier2", <<9, 20>> >>, <<"Tier3", <<1, 2>> >>,
       <<"Tier4", <<3, 5>> >>, <<"Tier5", <<13, 20>> >>, <<"Tier6", <<3, 4>> >> >>

\* the fixed_boundaries literal of map_score (it has no Tier7 entry)
map_fixed_boundaries ==
    << <<"Tier1", <<1, 4>> >>, <<"Tier2", <<2, 5>> >>, <<"Tier3", <<1, 2>> >>,
       <<"Tier4", <<3, 5>> >>, <<"Tier5", <<13, 20>> >>, <<"Tier6", <<3, 4>> >> >>

\* the lookups t1..t7 / t1..t6 at the head of both functions raise KeyError
\* when the caller's dict lacks one of the tiers
MissingTier(d, n) == \E k \in 1..n : ~HasKey(d, TierNames[k])

\* the dict after   raw_score_boundaries_dict["Tier7"] = 1.0
unmap_dict(raw_score_boundaries_dict) ==
    DictSet(raw_score_boundaries_dict, "Tier7", ROne)

\* an arm that forgets to add the lower raw boundary
UnmapSegment_no_offset(AD_score, raw, lo, hi) ==
    RMul(RDiv(RSub(AD_score, DictGet(fixed_boundaries, lo)),
              RSub(DictGet(fixed_boundaries, hi), DictGet(fixed_boundaries, lo))),
         RSub(DictGet(raw, hi), DictGet(raw, lo)))

\* one   if AD_score <= fixed_boundaries[hi]: return ...   arm of _unmap_score
UnmapSegment(AD_score, raw, lo, hi) ==
    RAdd(RMul(RDiv(RSub(AD_score, DictGet(fixed_boundaries, lo)),
                   RSub(DictGet(fixed_boundaries, hi),
                        DictGet(fixed_boundaries, lo))),
              RSub(DictGet(raw, hi), DictGet(raw, lo))),
         DictGet(raw, lo))

unmap_score(AD_score, raw_score_boundaries_dict) ==
    LET raw == unmap_dict(raw_score_boundaries_dict)
        fb(t) == DictGet(fixed_boundaries, t)
    IN  IF MissingTier(raw, 7) THEN Raise("KeyError")
        ELSE IF RLe(AD_score, fb("Tier1"))
             THEN Ret(RMul(RDiv(AD_score, fb("Tier1")), DictGet(raw, "Tier1")))
        ELSE IF RLe(AD_score, fb("Tier2"))
             THEN Ret(UnmapSegment(AD_score, raw, "Tier1", "Tier2"))
        ELSE IF RLe(AD_score, fb("Tier3"))
             THEN Ret(UnmapSegment(AD_score, raw, "Tier2", "Tier3"))
        ELSE IF RLe(AD_score, fb("Tier4"))
             THEN Ret(UnmapSegment(AD_score, raw, "Tier3", "Tier4"))
        ELSE IF RLe(AD_score, fb("Tier5"))
             THEN Ret(UnmapSegment(AD_score, raw, "Tier4", "Tier5"))
        ELSE IF RLe(AD_score, fb("Tier6"))
             THEN Ret(UnmapSegment(AD_score, raw, "Tier5", "Tier6"))
        ELSE IF RLe(AD_score, fb("Tier7"))
             THEN Ret(UnmapSegment(AD_score, raw, "Tier6", "Tier7"))
        ELSE Ret(AD_score)

\* the dict after   raw_boundaries["Tier7"] = 1.0
map_dict(raw_boundaries) == DictSet(raw_boundaries, "Tier7", ROne)

\* an arm that rescales by the input width instead of the output width
MapSegment_no_rescale(AD_raw_score, lo_in, hi_in, lo_out, hi_out) ==
    IF RSub(hi_in, lo_in) = RZero THEN Raise("ZeroDivisionError")
    ELSE Ret(RAdd(RMul(RDiv(RSub(AD_raw_score, lo_in), RSub(hi_in, lo_in)),
                       RSub(hi_in, lo_in)),
                  lo_out))

\* (AD_raw_score - lo_in) / (hi_in - lo_in) * (hi_out - lo_out) + lo_out,
\* a float division by zero raising ZeroDivisionError
MapSegment(AD_raw_score, lo_in, hi_in, lo_out, hi_out) ==
    IF RSub(hi_in, lo_in) = RZero THEN Raise("ZeroDivisionError")
    ELSE Ret(RAdd(RMul(RDiv(RSub(AD_raw_score, lo_in), RSub(hi_in, lo_in)),
                       RSub(hi_out, lo_out)),
                  lo_out))

map_score(AD_raw_score, raw_boundaries) ==
    LET raw == map_dict(raw_boundaries)
        fb(t) == DictGet(map_fixed_boundaries, t)
        t(k) == DictGet(raw, TierNames[k])
    IN  IF MissingTier(raw, 6) THEN Raise("KeyError")
        ELSE IF RLe(AD_raw_score, t(1))
             THEN IF t(1) = RZero THEN Raise("ZeroDivisionError")
                  ELSE Ret(RMul(RDiv(AD_raw_score, t(1)), fb("Tier1")))
        ELSE IF RLe(AD_raw_score, t(2))
             THEN MapSegment(AD_raw_score, t(1), t(2), fb("Tier1"), fb("Tier2"))
        ELSE IF RLe(AD_raw_score, t(3))
             THEN MapSegment(AD_raw_score, t(2), t(3), fb("Tier2"), fb("Tier3"))
        ELSE IF RLe(AD_raw_score, t(4))
             THEN MapSegment(AD_raw_score, t(3), t(4), fb("Tier3"), fb("Tier4"))
        ELSE IF RLe(AD_raw_score, t(5))
             THEN MapSegment(AD_raw_score, t(4), t(5), fb("Tier4"), fb("Tier5"))
        ELSE IF RLe(AD_raw_score, t(6))
             THEN MapSegment(AD_raw_score, t(5), t(6), fb("Tier5"), fb("Tier6"))
        ELSE MapSegment(AD_raw_score, t(6), ROne, fb("Tier6"), ROne)

\* process: score = self._unmap_score(AD_score, previous); map_score(score, new)
process_score(AD_score, previous, new) ==
    LET score == unmap_score(AD_score, previous)
    IN  IF score.exc # "none" THEN score ELSE map_score(score.val, new)

\* new_tier_boundaries is written only when _unmap_score returned
process_new_dict(AD_score, previous, new) ==
    IF unmap_score(AD_score, previous).exc # "none" THEN new ELSE map_dict(new)

\* sorted(tier_boundaries.items(), key=lambda item: item[1]): a stable sort
RECURSIVE InsertByValue(_, _)
InsertByValue(sorted, item) ==
    IF sorted = << >> THEN <<item>>
    ELSE IF RLt(item[2], sorted[Len(sorted)][2])
         THEN Append(InsertByValue(SubSeq(sorted, 1, Len(sorted) - 1), item),
                     sorted[Len(sorted)])
         ELSE Append(sorted, item)

RECURSIVE SortedByValue(_)
SortedByValue(d) ==
    IF d = << >> THEN << >>
    ELSE InsertByValue(SortedByValue(SubSeq(d, 1, Len(d) - 1)), d[Len(d)])

\* segments closed below and open above:  score < upper and score >= lower
score_to_tier_left_closed(score, boundaries) ==
    LET sorted == SortedByValue(boundaries)
        tier_names == Append(DictKeys(sorted), "Tier7")
        limits == <<RZero>> \o DictValues(sorted) \o <<ROne>>
        hits == {i \in 1..Len(tier_names) :
                    RLt(score, limits[i + 1]) /\ RLe(limits[i], score)}
    IN  IF hits = {} THEN Raise("ValueError")
        ELSE Ret(tier_names[CHOOSE i \in hits : \A j \in hits : i <= j])

\* a score no segment contains is put in the terminal tier instead of raising
score_to_tier_clamped(score, boundaries) ==
    LET sorted == SortedByValue(boundaries)
        tier_names == Append(DictKeys(sorted), "Tier7")
        limits == <<RZero>> \o DictValues(sorted) \o <<ROne>>
        hits == {i \in 1..Len(tier_names) :
                    RLe(score, limits[i + 1]) /\ RLt(limits[i], score)}
    IN  IF hits = {} THEN Ret("Tier7")
        ELSE Ret(tier_names[CHOOSE i \in hits : \A j \in hits : i <= j])

score_to_tier(score, boundaries) ==
    LET sorted == SortedByValue(boundaries)
        tier_names == Append(DictKeys(sorted), "Tier7")
        limits == <<RZero>> \o DictValues(sorted) \o <<ROne>>
        hits == {i \in 1..Len(tier_names) :
                    RLe(score, limits[i + 1]) /\ RLt(limits[i], score)}
    IN  IF hits = {} THEN Raise("ValueError")
        ELSE Ret(tier_names[CHOOSE i \in hits : \A j \in hits : i <= j])

-----------------------------------------------------------------------------
(* The TierMapper under test: its schemes and the scores given to it *)

RECURSIVE Ascending(_)
Ascending(S) ==
    IF S = {} THEN << >>
    ELSE LET m == CHOOSE x \in S : \A y \in S : x <= y
         IN  <<m>> \o Ascending(S \ {m})

\* the dict {"Tier1": b[1], ..., "Tier6": b[6]}
MakeScheme(b) == [k \in 1..Len(b) |-> <<TierNames[k], b[k]>>]

\* every scheme with six strictly increasing boundaries on the grid inside (0,1)
GridSchemes ==
    {MakeScheme([k \in 1..6 |-> Rat(Ascending(S)[k], GridDen)]) :
        S \in {T \in SUBSET (1..(GridDen - 1)) : Cardinality(T) = 6}}

\* existing_tier_dict of the class docstring
ExampleScheme ==
    MakeScheme(<< <<19, 100>>, <<13, 50>>, <<8, 25>>, <<43, 100>>, <<12, 25>>,
                  <<13, 25>> >>)

\* schemes that break the scheme invariant: unsorted, two equal boundaries,
\* a boundary above 1
UnsortedScheme ==
    DictSet(DictSet(ExampleScheme, "Tier1", <<13, 50>>), "Tier2", <<19, 100>>)
DegenerateScheme == DictSet(ExampleScheme, "Tier2", <<19, 100>>)
OutOfRangeScheme == DictSet(ExampleScheme, "Tier6", <<3, 2>>)

MapperSchemes ==
    GridSchemes \cup {ExampleScheme, UnsortedScheme, DegenerateScheme,
                      OutOfRangeScheme}

ValuesOf(d) == {d[i][2] : i \in 1..Len(d)}

GridScores == {Rat(k, ScoreDen) : k \in (-1)..(ScoreDen + 1)}

Scores(previous, new) ==
    GridScores \cup ValuesOf(fixed_boundaries) \cup ValuesOf(previous)
        \cup ValuesOf(new)

InUnit(x) == RLe(RZero, x) /\ RLe(x, ROne)

\* Tier1..Tier6 strictly increasing inside (0,1)
StrictlyIncreasing(d) ==
    /\ ~MissingTier(d, 6)
    /\ RLt(RZero, DictGet(d, "Tier1"))
    /\ \A k \in 1..5 : RLt(DictGet(d, TierNames[k]), DictGet(d, TierNames[k + 1]))
    /\ RLt(DictGet(d, "Tier6"), ROne)

IdleSplitter ==
    /\ col_series = << >>
    /\ series_ret = NoCall
    /\ categorical_columns_to_split = << >>
    /\ df_in = << >>
    /\ df_before = << >>
    /\ split_ret = NoCall

NoInstance == [exists |-> FALSE]

IdleRenamer ==
    /\ renamer = NoInstance
    /\ renamer_ret = NoCall

IdleFmt ==
    /\ transformer = NoInstance
    /\ transformer_ret = NoCall

IdleDroppers ==
    /\ dom_dropper = NoInstance
    /\ dom_ret = NoCall
    /\ gran_dropper = NoInstance
    /\ gran_ret = NoCall

IdlePipeline ==
    /\ pipe_transforms = << >>
    /\ pipe_input = << >>
    /\ pipe_data = << >>
    /\ pipe_pc = 0
    /\ pipe_log = << >>
    /\ pipe_ret = NoCall
    /\ fan_pc = << >>
    /\ fan_out = << >>
    /\ fan_order = << >>
    /\ fan_ret = NoCall

\* TierMapper(previous_tier_boundaries, new_tier_boundaries) has been built
InitTierMapper ==
    /\ IdleDroppers
    /\ previous_tier_boundaries \in MapperSchemes
    /\ new_tier_boundaries \in MapperSchemes
    /\ tier_boundaries = << >>
    /\ tier_call = NoCall
    /\ IdleSplitter
    /\ IdleRenamer
    /\ IdleFmt
    /\ IdlePipeline

\* tier_mapper.process(AD_score)
Process(AD_score) ==
    /\ tier_call' =
         [op |-> "process", score |-> AD_score,
          ret |-> process_score(AD_score, previous_tier_boundaries,
                                new_tier_boundaries)]
    /\ previous_tier_boundaries' = unmap_dict(previous_tier_boundaries)
    /\ new_tier_boundaries' =
         process_new_dict(AD_score, previous_tier_boundaries,
                          new_tier_boundaries)
    /\ UNCHANGED <<tier_boundaries, splitVars, renamerVars,
                   fmtVars, pipeVars, dropperVars>>

NextTierMapper ==
    \E AD_score \in Scores(previous_tier_boundaries, new_tier_boundaries) :
        Process(AD_score)

SpecTierMapper == InitTierMapper /\ [][NextTierMapper]_vars

-----------------------------------------------------------------------------
(* score_to_tier under test: a classmethod, called with any dict *)

TierValues == {Rat(k, TierDen) : k \in (-1)..(TierDen + 2)}

\* dicts {"Tier1": v1, ..., "Tiern": vn} in insertion order, any values
TierDicts ==
    UNION {{MakeScheme(b) : b \in [1..n -> TierValues]} : n \in 0..MaxTiers}

\* the grid values and the midpoints between them
TierScores == {Rat(k, 2 * TierDen) : k \in (-2)..(2 * TierDen + 4)}

InitScoreToTier ==
    /\ IdleDroppers
    /\ previous_tier_boundaries = << >>
    /\ new_tier_boundaries = << >>
    /\ tier_boundaries \in TierDicts
    /\ tier_call = NoCall
    /\ IdleSplitter
    /\ IdleRenamer
    /\ IdleFmt
    /\ IdlePipeline

\* TierMapper.score_to_tier(score, tier_boundaries); the caller's dict is
\* not written (the function rebinds its local name to a sorted copy)
ScoreToTier(score) ==
    /\ tier_call' = [op |-> "score_to_tier", score |-> score,
                     ret |-> score_to_tier(score, tier_boundaries)]
    /\ UNCHANGED <<previous_tier_boundaries, new_tier_boundaries,
                   tier_boundaries, splitVars, renamerVars,
                   fmtVars, pipeVars, dropperVars>>

NextScoreToTier == \E score \in TierScores : ScoreToTier(score)

SpecScoreToTier == InitScoreToTier /\ [][NextScoreToTier]_vars

-----------------------------------------------------------------------------
(* _unmap_score and map_score under test: called with a caller's dict *)

\* the scores of the grid, the fixed boundaries and the boundaries of every
\* scheme
CallScores ==
    GridScores \cup ValuesOf(fixed_boundaries)
        \cup UNION {ValuesOf(scheme) : scheme \in MapperSchemes}

\* a TierMapper built as in the class docstring exists, and the caller holds
\* a dict of boundaries
InitTierCalls ==
    /\ IdleDroppers
    /\ previous_tier_boundaries = ExampleScheme
    /\ new_tier_boundaries = ExampleScheme
    /\ tier_boundaries \in MapperSchemes
    /\ tier_call = NoCall
    /\ IdleSplitter
    /\ IdleRenamer
    /\ IdleFmt
    /\ IdlePipeline

\* tier_mapper._unmap_score(AD_score, tier_boundaries)
UnmapScore(AD_score) ==
    /\ tier_call' = [op |-> "_unmap_score", score |-> AD_score,
                     ret |-> unmap_score(AD_score, tier_boundaries)]
    /\ tier_boundaries' = unmap_dict(tier_boundaries)
    /\ UNCHANGED <<previous_tier_boundaries, new_tier_boundaries, splitVars,
                   renamerVars, fmtVars, pipeVars, dropperVars>>

\* TierMapper.map_score(AD_raw_score, tier_boundaries)
MapScore(AD_raw_score) ==
    /\ tier_call' = [op |-> "map_score", score |-> AD_raw_score,
                     ret |-> map_score(AD_raw_score, tier_boundaries)]
    /\ tier_boundaries' = map_dict(tier_boundaries)
    /\ UNCHANGED <<previous_tier_boundaries, new_tier_boundaries, splitVars,
                   renamerVars, fmtVars, pipeVars, dropperVars>>

NextTierCalls ==
    \/ \E AD_score \in CallScores : UnmapScore(AD_score)
    \/ \E AD_raw_score \in CallScores : MapScore(AD_raw_score)

SpecTierCalls == InitTierCalls /\ [][NextTierCalls]_vars

-----------------------------------------------------------------------------
(* CategoricalColumnSplitter *)

\* A cell is a str (a sequence of characters), a number or the missing marker
Str(chars) == [t |-> "str", v |-> chars]
Num(n) == [t |-> "num", v |-> n]
NaN == [t |-> "nan"]

Digits == <<"0", "1", "2", "3", "4", "5", "6", "7", "8", "9">>
IsDigit(c) == \E i \in 1..10 : Digits[i] = c
DigitValue(c) == (CHOOSE i \in 1..10 : Digits[i] = c) - 1

RECURSIVE ParseDecimal(_)
ParseDecimal(chars) ==
    IF chars = << >> THEN 0
    ELSE 10 * ParseDecimal(SubSeq(chars, 1, Len(chars) - 1))
            + DigitValue(chars[Len(chars)])

\* pd.to_numeric(cell, errors="coerce"): a str that spells a decimal number
\* becomes that number, any other str becomes NaN, a number stays
to_numeric(cell) ==
    IF cell.t # "str" THEN cell
    ELSE IF cell.v # << >> /\ \A i \in 1..Len(cell.v) : IsDigit(cell.v[i])
         THEN Num(ParseDecimal(cell.v))
         ELSE NaN

\* Series.replace(to_replace, value) on one cell: the value at the position of
\* the first entry of to_replace equal to the cell, else the cell
replace(cell, to_replace, value) ==
    IF \E i \in 1..Len(to_replace) : to_replace[i] = cell
    THEN value[CHOOSE i \in 1..Len(to_replace) :
                 /\ to_replace[i] = cell
                 /\ \A j \in 1..(i - 1) : to_replace[j] # cell]
    ELSE cell

\* numerical_series, cell by cell:
\* replace(["D","R","V","S","A"], [5,6,6,0,2]) then to_numeric(errors="coerce")
numerical_cell(cell) ==
    to_numeric(replace(cell,
                       <<Str(<<"D">>), Str(<<"R">>), Str(<<"V">>),
                         Str(<<"S">>), Str(<<"A">>)>>,
                       <<Num(5), Num(6), Num(6), Num(0), Num(2)>>))

\* a categorical replacement that forgets "6" in its second list
cat_cell_without_6(cell) ==
    replace(replace(cell,
                    <<Str(<<"0">>), Str(<<"1">>), Str(<<"2">>)>>,
                    <<NaN, NaN, NaN>>),
            <<Str(<<"3">>), Str(<<"4">>), Str(<<"5">>)>>,
            <<Str(<<"D">>), Str(<<"D">>), Str(<<"D">>)>>)

\* cat_series, cell by cell:
\* replace(["0","1","2"], [nan]*3) then replace(["3","4","5","6"], ["D"]*4)
cat_cell(cell) ==
    replace(replace(cell,
                    <<Str(<<"0">>), Str(<<"1">>), Str(<<"2">>)>>,
                    <<NaN, NaN, NaN>>),
            <<Str(<<"3">>), Str(<<"4">>), Str(<<"5">>), Str(<<"6">>)>>,
            <<Str(<<"D">>), Str(<<"D">>), Str(<<"D">>), Str(<<"D">>)>>)

\* _split_categorical_column returns (cat_series, numerical_series); a Series
\* is the sequence of its cells in row order
split_categorical_column(series) ==
    << [i \in 1..Len(series) |-> cat_cell(series[i])],
       [i \in 1..Len(series) |-> numerical_cell(series[i])] >>

\* "QCB" in col
Contains(pat, str) ==
    \E i \in 1..(Len(str) - Len(pat) + 1) : SubSeq(str, i, i + Len(pat) - 1) = pat

\* a gate that only accepts names starting with the marker
HasMarker_prefix_only(col) == Len(col) >= 3 /\ SubSeq(col, 1, 3) = <<"Q", "C", "B">>

HasMarker(col) == Contains(<<"Q", "C", "B">>, col)

\* col + "_num"
NumName(col) == col \o <<"_", "n", "u", "m">>

\* A DataFrame is the sequence of its columns <<name, cells>> in column order
ColumnNames(df) == [i \in 1..Len(df) |-> df[i][1]]
NameSet(df) == {df[i][1] : i \in 1..Len(df)}
HasColumn(df, col) == col \in NameSet(df)
\* df[col], for a frame whose column names are unique
Column(df, col) == df[CHOOSE i \in 1..Len(df) : df[i][1] = col][2]
\* df[col] = series, for a column the frame already has
SetColumn(df, col, series) ==
    [i \in 1..Len(df) |-> IF df[i][1] = col THEN <<col, series>> ELSE df[i]]

\* The loop of process over the configured columns still to visit: the
\* caller's frame and num_dict as they stand, and the exception, if any, that
\* df_in[col] raised for a column the frame does not have
RECURSIVE split_loop(_, _, _)
split_loop(cols, df, num_dict) ==
    IF cols = << >> THEN [exc |-> "none", df |-> df, num_dict |-> num_dict]
    ELSE LET col == Head(cols)
         IN  IF ~HasMarker(col) THEN split_loop(Tail(cols), df, num_dict)
             ELSE IF ~HasColumn(df, col)
                  THEN [exc |-> "KeyError", df |-> df, num_dict |-> num_dict]
             ELSE LET parts == split_categorical_column(Column(df, col))
                  IN  split_loop(Tail(cols),
                                 SetColumn(df, col, parts[1]),
                                 DictSet(num_dict, NumName(col), parts[2]))

\* the caller's DataFrame after process (written in place by df_in[col] = ...)
split_process_df(cols, df) == split_loop(cols, df, << >>).df

\* what process returns: pd.concat([df_in, pd.DataFrame(num_dict)], axis=1)
split_process(cols, df) ==
    LET done == split_loop(cols, df, << >>)
    IN  IF done.exc # "none" THEN Raise(done.exc)
        ELSE Ret(done.df \o done.num_dict)

-----------------------------------------------------------------------------
(* _split_categorical_column under test *)

\* the closed alphabet of the insight codes
CountSymbols == {"0", "1", "2", "3", "4", "5", "6"}
StateSymbols ==
    {"D", "R", "V", "S", "A", "C", "M", "T", "U", "N", "Q", "Z", "I", "."}
ClosedAlphabet == {Str(<<c>>) : c \in CountSymbols \cup StateSymbols}

\* symbols outside the alphabet: further digits, a multi-digit string, others
UnseenSymbols ==
    {Str(<<"7">>), Str(<<"8">>), Str(<<"9">>), Str(<<"1", "0">>),
     Str(<<"X">>), Str(<<"d">>)}

Symbols == ClosedAlphabet \cup UnseenSymbols

IdleTierMapper ==
    /\ previous_tier_boundaries = << >>
    /\ new_tier_boundaries = << >>
    /\ tier_boundaries = << >>
    /\ tier_call = NoCall

InitSplitColumn ==
    /\ IdleDroppers
    /\ col_series \in UNION {[1..n -> Symbols] : n \in 0..MaxRows}
    /\ series_ret = NoCall
    /\ categorical_columns_to_split = << >>
    /\ df_in = << >>
    /\ df_before = << >>
    /\ split_ret = NoCall
    /\ IdleTierMapper
    /\ IdleRenamer
    /\ IdleFmt
    /\ IdlePipeline

\* splitter._split_categorical_column(col_series)
SplitColumn ==
    /\ series_ret' = [op |-> "_split_categorical_column",
                      ret |-> Ret(split_categorical_column(col_series))]
    /\ UNCHANGED <<col_series, categorical_columns_to_split, df_in, df_before,
                   split_ret, tierVars, renamerVars, fmtVars, pipeVars,
                   dropperVars>>

NextSplitColumn == SplitColumn

SpecSplitColumn == InitSplitColumn /\ [][NextSplitColumn]_vars

-----------------------------------------------------------------------------
(* CategoricalColumnSplitter.process under test *)

\* column names: two with the marker, one without, and the name process
\* gives to the numeric channel of the first
ColNames ==
    {<<"Q", "C", "B", "1">>, <<"A", "Q", "C", "B">>, <<"a", "g", "e">>,
     NumName(<<"Q", "C", "B", "1">>)}

\* the cells a column of the frame may hold (every column has two rows)
SampleColumns ==
    {<<Str(<<"0">>), Str(<<"3">>)>>, <<Str(<<"D">>), Str(<<"Z">>)>>,
     <<Str(<<"7">>), Str(<<"A">>)>>}

NoRepeat(seq) == \A i, j \in 1..Len(seq) : seq[i] = seq[j] => i = j

\* frames of at most MaxCols columns with unique names
DataFrames ==
    UNION {{df \in [1..n -> ColNames \X SampleColumns] : NoRepeat(ColumnNames(df))} :
             n \in 0..MaxCols}

\* configured lists of at most MaxCfg names, repeats allowed
ColumnLists == UNION {[1..n -> ColNames] : n \in 0..MaxCfg}

\* CategoricalColumnSplitter(categorical_columns_to_split) has been built and
\* the caller holds a DataFrame
InitSplitter ==
    /\ IdleDroppers
    /\ categorical_columns_to_split \in ColumnLists
    /\ df_in \in DataFrames
    /\ df_before = df_in
    /\ split_ret = NoCall
    /\ col_series = << >>
    /\ series_ret = NoCall
    /\ IdleTierMapper
    /\ IdleRenamer
    /\ IdleFmt
    /\ IdlePipeline

\* splitter.process(df_in)
SplitterProcess ==
    /\ df_before' = df_in
    /\ split_ret' = [op |-> "process",
                     ret |-> split_process(categorical_columns_to_split, df_in)]
    /\ df_in' = split_process_df(categorical_columns_to_split, df_in)
    /\ UNCHANGED <<categorical_columns_to_split, col_series, series_ret,
                   tierVars, renamerVars, fmtVars, pipeVars, dropperVars>>

NextSplitter == SplitterProcess

SpecSplitter == InitSplitter /\ [][NextSplitter]_vars

-----------------------------------------------------------------------------
(* ColumnRenamer *)

\* A constructor argument is a Python object: its type and its content
PyObject(type, content) == [type |-> type, content |-> content]

\* isinstance(name_mapping, dict): dict itself and its subclasses
DictTypes == {"dict", "OrderedDict"}
IsDict(obj) == obj.type \in DictTypes

\* a constructor that stores whatever it is given
column_renamer_init_unchecked(name_mapping) ==
    Ret([exists |-> TRUE, name_mapping |-> name_mapping])

\* ColumnRenamer.__init__: TypeError unless name_mapping is a dict, else the
\* instance with self.name_mapping = name_mapping
column_renamer_init(name_mapping) ==
    IF ~IsDict(name_mapping) THEN Raise("TypeError")
    ELSE Ret([exists |-> TRUE, name_mapping |-> name_mapping])

\* ColumnRenamer.process: data.rename(columns=self.name_mapping), a new frame;
\* pandas raises TypeError for a mapper that is neither dict-like nor callable
column_renamer_process(name_mapping, data) ==
    IF ~IsDict(name_mapping) THEN Raise("TypeError")
    ELSE Ret([i \in 1..Len(data) |->
                 << IF HasKey(name_mapping.content, data[i][1])
                    THEN DictGet(name_mapping.content, data[i][1])
                    ELSE data[i][1],
                    data[i][2] >>])

\* the arguments callers construct a ColumnRenamer with
NameMappings ==
    LET qcb == <<"Q", "C", "B", "1">>
        age == <<"a", "g", "e">>
        aqcb == <<"A", "Q", "C", "B">>
    IN  {PyObject("dict", << >>),
         PyObject("dict", << <<qcb, age>> >>),
         PyObject("dict", << <<age, aqcb>>, <<qcb, age>> >>),
         PyObject("OrderedDict", << <<age, qcb>> >>),
         PyObject("list", << <<qcb, age>> >>),
         PyObject("tuple", <<qcb, age>>),
         PyObject("str", qcb),
         PyObject("NoneType", << >>)}

InitRenamer ==
    /\ IdleDroppers
    /\ renamer = NoInstance
    /\ renamer_ret = NoCall
    /\ IdleTierMapper
    /\ IdleSplitter
    /\ IdleFmt
    /\ IdlePipeline

\* col_renamer = ColumnRenamer(name_mapping=name_mapping)
NewColumnRenamer(name_mapping) ==
    LET made == column_renamer_init(name_mapping)
    IN  /\ renamer' = IF made.exc = "none" THEN made.val ELSE renamer
        /\ renamer_ret' = [op |-> "__init__", arg |-> name_mapping,
                           ret |-> IF made.exc = "none" THEN Ret("instance")
                                   ELSE made]
        /\ UNCHANGED <<tierVars, splitVars, fmtVars, pipeVars, dropperVars>>

\* col_renamer.process(data), on an instance that exists
RenamerProcess(data) ==
    /\ renamer.exists
    /\ renamer_ret' = [op |-> "process", arg |-> data,
                       ret |-> column_renamer_process(renamer.name_mapping, data)]
    /\ UNCHANGED <<renamer, tierVars, splitVars, fmtVars, pipeVars, dropperVars>>

NextRenamer ==
    \/ \E name_mapping \in NameMappings : NewColumnRenamer(name_mapping)
    \/ \E data \in DataFrames : RenamerProcess(data)

SpecRenamer == InitRenamer /\ [][NextRenamer]_vars

-----------------------------------------------------------------------------
(* PreprocessingError and the copy policy shared by the transformers *)

\* is_data_size_small compares data_object.size with this number
SizeThreshold == 100000000

\* a PreprocessingError(step_name, message) that escaped from a call; the
\* message is the exception that was caught, or a record that holds a text
PreprocessingError(step_name, message) ==
    [exc |-> "PreprocessingError", stepName |-> step_name, message |-> message]

\* DataFrame.shape[0] and DataFrame.size of a frame whose columns are equally long
NumRows(df) == IF df = << >> THEN 0 ELSE Len(df[1][2])
Size(df) == NumRows(df) * Len(df)

is_data_size_small(data_object) == Size(data_object) < SizeThreshold

-----------------------------------------------------------------------------
(* ColumnDotRenamer, LowerCaseTransformer, ColumnFiller: transformers that   *)
(* take an orientation fmt.  With fmt "speedy" the names are the labels of   *)
(* the index, with fmt "flat" the labels of the columns; a frame is given    *)
(* here as the sequence of <<label, cells>> along the axis that carries the  *)
(* names, so both orientations read the same sequence.                       *)

\* str.replace(old, new) for a non-empty old: every occurrence, left to right
RECURSIVE str_replace(_, _, _)
str_replace(str, old, new) ==
    IF Len(str) < Len(old) THEN str
    ELSE IF SubSeq(str, 1, Len(old)) = old
         THEN new \o str_replace(SubSeq(str, Len(old) + 1, Len(str)), old, new)
         ELSE <<Head(str)>> \o str_replace(Tail(str), old, new)

\* ColumnDotRenamer.__init__: stores fmt, from_name and to_name as given
column_dot_renamer_init(fmt, from_name, to_name) ==
    Ret([exists |-> TRUE, cls |-> "ColumnDotRenamer", fmt |-> fmt,
         from_name |-> from_name, to_name |-> to_name])

\* dfIn.rename({col: col.replace(from_name, to_name) for col in labels})
dot_rename(self, dfIn) ==
    [i \in 1..Len(dfIn) |->
        <<str_replace(dfIn[i][1], self.from_name, self.to_name), dfIn[i][2]>>]

\* ColumnDotRenamer.process: dfOut is bound in the "speedy" and in the "flat"
\* branch only, and `return dfOut` follows both
column_dot_renamer_process(self, dfIn) ==
    IF self.fmt = "speedy" THEN Ret(dot_rename(self, dfIn))
    ELSE IF self.fmt = "flat" THEN Ret(dot_rename(self, dfIn))
    ELSE Raise("UnboundLocalError")

UpperCase == <<"A", "B", "C", "D", "E", "F", "G", "H", "I", "J", "K", "L", "M",
               "N", "O", "P", "Q", "R", "S", "T", "U", "V", "W", "X", "Y", "Z">>
LowerCase == <<"a", "b", "c", "d", "e", "f", "g", "h", "i", "j", "k", "l", "m",
               "n", "o", "p", "q", "r", "s", "t", "u", "v", "w", "x", "y", "z">>

\* str.lower()
str_lower(chars) ==
    [i \in 1..Len(chars) |->
        IF \E k \in 1..26 : UpperCase[k] = chars[i]
        THEN LowerCase[CHOOSE k \in 1..26 : UpperCase[k] = chars[i]]
        ELSE chars[i]]

\* Series.str.lower(): the .str accessor exists for a Series of object dtype
\* (one that holds a str) and raises AttributeError for a numeric Series; a
\* cell that is not a str becomes NaN
series_str_lower(series) ==
    IF \A i \in 1..Len(series) : series[i].t # "str" THEN Raise("AttributeError")
    ELSE Ret([i \in 1..Len(series) |->
                 IF series[i].t = "str" THEN Str(str_lower(series[i].v))
                 ELSE NaN])

\* LowerCaseTransformer.__init__: stores col_names and fmt as given
lower_case_transformer_init(col_names, fmt) ==
    Ret([exists |-> TRUE, cls |-> "LowerCaseTransformer",
         col_names |-> col_names, fmt |-> fmt])

\* for col in columns: df_out[col] = df_out[col].str.lower()
RECURSIVE lower_loop(_, _)
lower_loop(columns, df_out) ==
    IF columns = << >> THEN [exc |-> "none", df |-> df_out]
    ELSE LET lowered == series_str_lower(Column(df_out, Head(columns)))
         IN  IF lowered.exc # "none" THEN [exc |-> lowered.exc, df |-> df_out]
             ELSE lower_loop(Tail(columns),
                             SetColumn(df_out, Head(columns), lowered.val))

\* LowerCaseTransformer.process: the outcome of the call and the caller's
\* frame after it (the frame is written in place when it is not small)
lower_case_transformer_process(self, df) ==
    IF self.fmt \in {"speedy", "flat"}
    THEN LET present(col) == HasColumn(df, col)
             done == lower_loop(SelectSeq(self.col_names, present), df)
         IN  [ret |-> IF done.exc = "none" THEN Ret(done.df) ELSE Raise(done.exc),
              df |-> IF is_data_size_small(df) THEN df ELSE done.df]
    ELSE [ret |-> PreprocessingError(
                      "LowerCaseTransformer",
                      [text |-> "Invalid format argument supplied when setting up class"]),
          df |-> df]

\* ColumnFiller.__init__: stores its arguments as given (logger left at None)
column_filler_init(col_names, critical_features, fill_value, enforce, fmt) ==
    Ret([exists |-> TRUE, cls |-> "ColumnFiller", col_names |-> col_names,
         critical_features |-> critical_features, fill_value |-> fill_value,
         enforce |-> enforce, fmt |-> fmt])

\* df_out[col] = fill_value: every cell of the column, appended if it is new
fill_column(df_out, col, fill_value) ==
    LET cells == [r \in 1..NumRows(df_out) |-> fill_value]
    IN  IF HasColumn(df_out, col) THEN SetColumn(df_out, col, cells)
        ELSE Append(df_out, <<col, cells>>)

\* for col in self.col_names: if self.enforce or col not in labels: fill it
RECURSIVE fill_loop(_, _, _, _)
fill_loop(col_names, df_out, fill_value, enforce) ==
    IF col_names = << >> THEN df_out
    ELSE fill_loop(Tail(col_names),
                   IF enforce \/ ~HasColumn(df_out, Head(col_names))
                   THEN fill_column(df_out, Head(col_names), fill_value)
                   ELSE df_out,
                   fill_value, enforce)

\* ColumnFiller.process: missing_cols is bound in the "speedy" and in the
\* "flat" branch only; whatever is raised inside the try is wrapped
column_filler_process(self, df) ==
    IF self.fmt \in {"speedy", "flat"}
    THEN LET absent(col) == ~HasColumn(df, col)
             critical(col) ==
                 \E k \in 1..Len(self.critical_features) :
                     self.critical_features[k] = col
             missing_cols == SelectSeq(self.col_names, absent)
             df_out == fill_loop(self.col_names, df, self.fill_value,
                                 self.enforce)
             critical_missing_cols == SelectSeq(missing_cols, critical)
         IN  [ret |-> IF critical_missing_cols # << >>
                      THEN PreprocessingError(
                               "ColumnFiller",
                               PreprocessingError(
                                   "column_filler",
                                   [text |-> "Missing Critical columns: {}",
                                    cols |-> critical_missing_cols]))
                      ELSE Ret(df_out),
              df |-> IF is_data_size_small(df) THEN df ELSE df_out]
    ELSE [ret |-> PreprocessingError("ColumnFiller", Raise("UnboundLocalError")),
          df |-> df]

-----------------------------------------------------------------------------
(* The fmt transformers under test *)

\* the two orientations the transformers know, and two strings they do not
Fmts == {"speedy", "flat", "wide", "Flat"}

FmtNames == {<<"A", ".", "B">>, <<"C", "d">>, <<"e", ".", ".", "F">>}

\* configured lists of at most MaxCfg names, repeats allowed
FmtColumnLists == UNION {[1..n -> FmtNames] : n \in 0..MaxCfg}

\* frames of two rows: no columns, str columns, a column of mixed cells, a
\* numeric column
FmtFrames ==
    LET ab == <<"A", ".", "B">>
        cd == <<"C", "d">>
        ef == <<"e", ".", ".", "F">>
        strs == <<Str(<<"D", "z">>), Str(<<"0">>)>>
        mixed == <<Str(<<"Q">>), NaN>>
        nums == <<Num(1), Num(2)>>
    IN  {<< >>,
         << <<ab, strs>> >>,
         << <<cd, mixed>> >>,
         << <<ef, nums>> >>,
         << <<ab, strs>>, <<cd, mixed>> >>,
         << <<cd, strs>>, <<ef, nums>> >>,
         << <<ef, mixed>>, <<ab, nums>> >>}

FillValues == {NaN, Num(0)}

InitFmt ==
    /\ IdleDroppers
    /\ transformer = NoInstance
    /\ transformer_ret = NoCall
    /\ IdleTierMapper
    /\ IdleSplitter
    /\ IdleRenamer
    /\ IdlePipeline

\* what a constructor call leaves behind
Constructed(made, args) ==
    /\ transformer' = IF made.exc = "none" THEN made.val ELSE transformer
    /\ transformer_ret' = [op |-> "__init__", arg |-> args,
                           ret |-> IF made.exc = "none" THEN Ret("instance")
                                   ELSE made]
    /\ UNCHANGED <<tierVars, splitVars, renamerVars, pipeVars, dropperVars>>

\* ColumnDotRenamer(fmt=fmt)
NewColumnDotRenamer(fmt) ==
    /\ ~transformer.exists
    /\ Constructed(column_dot_renamer_init(fmt, <<".">>, <<" ">>),
                   [cls |-> "ColumnDotRenamer", fmt |-> fmt])

\* LowerCaseTransformer(col_names, fmt=fmt)
NewLowerCaseTransformer(col_names, fmt) ==
    /\ ~transformer.exists
    /\ Constructed(lower_case_transformer_init(col_names, fmt),
                   [cls |-> "LowerCaseTransformer", fmt |-> fmt])

\* ColumnFiller(col_names, critical_features, fill_value, enforce, fmt=fmt)
NewColumnFiller(col_names, critical_features, fill_value, enforce, fmt) ==
    /\ ~transformer.exists
    /\ Constructed(column_filler_init(col_names, critical_features, fill_value,
                                      enforce, fmt),
                   [cls |-> "ColumnFiller", fmt |-> fmt])

\* column_dot_renamer.process(df): a new frame is returned by rename
DotRenamerProcess(df) ==
    /\ transformer.exists
    /\ transformer.cls = "ColumnDotRenamer"
    /\ transformer_ret' = [op |-> "process", arg |-> df,
                           ret |-> column_dot_renamer_process(transformer, df),
                           df |-> df]
    /\ UNCHANGED <<transformer, tierVars, splitVars, renamerVars, pipeVars,
                   dropperVars>>

\* lower_case_transformer.process(df)
LowerCaseProcess(df) ==
    /\ transformer.exists
    /\ transformer.cls = "LowerCaseTransformer"
    /\ LET done == lower_case_transformer_process(transformer, df)
       IN  transformer_ret' = [op |-> "process", arg |-> df,
                               ret |-> done.ret, df |-> done.df]
    /\ UNCHANGED <<transformer, tierVars, splitVars, renamerVars, pipeVars,
                   dropperVars>>

\* column_filler.process(df)
ColumnFillerProcess(df) ==
    /\ transformer.exists
    /\ transformer.cls = "ColumnFiller"
    /\ LET done == column_filler_process(transformer, df)
       IN  transformer_ret' = [op |-> "process", arg |-> df,
                               ret |-> done.ret, df |-> done.df]
    /\ UNCHANGED <<transformer, tierVars, splitVars, renamerVars, pipeVars,
                   dropperVars>>

NextFmt ==
    \/ \E fmt \in Fmts : NewColumnDotRenamer(fmt)
    \/ \E col_names \in FmtColumnLists, fmt \in Fmts :
           NewLowerCaseTransformer(col_names, fmt)
    \/ \E col_names \in FmtColumnLists, fill_value \in FillValues,
          enforce \in BOOLEAN, fmt \in Fmts :
           \E critical_features \in {<< >>, col_names} :
               NewColumnFiller(col_names, critical_features, fill_value,
                               enforce, fmt)
    \/ \E df \in FmtFrames : DotRenamerProcess(df)
    \/ \E df \in FmtFrames : LowerCaseProcess(df)
    \/ \E df \in FmtFrames : ColumnFillerProcess(df)

SpecFmt == InitFmt /\ [][NextFmt]_vars

-----------------------------------------------------------------------------
(* The pipeline executor: DataFramePipe (sequential mode) and                *)
(* run_pipeline_with_multi_threading (fan-out mode), both exported by        *)
(* data_transformation/__init__.py from _data_pipe.  A transform of a        *)
(* pipeline is an instance of one of the transformers above.                 *)

\* the longest list of transforms, or of branches, a pipeline is built with
MaxStages == 2

\* transform.process(data): the outcome of the call
Apply(transform, data) ==
    CASE transform.cls = "ColumnRenamer" ->
             column_renamer_process(transform.name_mapping, data)
      [] transform.cls = "CategoricalColumnSplitter" ->
             split_process(transform.categorical_columns_to_split, data)
      [] transform.cls = "LowerCaseTransformer" ->
             lower_case_transformer_process(transform, data).ret

\* the transforms pipelines are built from
PipeTransforms ==
    LET qcb == <<"Q", "C", "B", "1">>
        age == <<"a", "g", "e">>
        aqcb == <<"A", "Q", "C", "B">>
    IN  {[cls |-> "ColumnRenamer",
          name_mapping |-> PyObject("dict", << <<qcb, age>> >>)],
         [cls |-> "ColumnRenamer",
          name_mapping |-> PyObject("dict", << <<age, aqcb>> >>)],
         [cls |-> "CategoricalColumnSplitter",
          categorical_columns_to_split |-> <<qcb>>],
         [cls |-> "LowerCaseTransformer", col_names |-> <<qcb, age>>,
          fmt |-> "flat"],
         [cls |-> "LowerCaseTransformer", col_names |-> <<age>>,
          fmt |-> "wide"]}

PipeLists == UNION {[1..n -> PipeTransforms] : n \in 0..MaxStages}

\* the datasets pipelines are run on
PipeInputs ==
    LET qcb == <<"Q", "C", "B", "1">>
        age == <<"a", "g", "e">>
        codes == <<Str(<<"D">>), Str(<<"Z">>)>>
        counts == <<Str(<<"0">>), Str(<<"3">>)>>
    IN  {<< >>,
         << <<qcb, codes>> >>,
         << <<age, codes>> >>,
         << <<qcb, counts>>, <<age, codes>> >>,
         << <<age, counts>>, <<qcb, codes>> >>}

\* the error the executor raises for a transform whose process raised: a
\* PreprocessingError that carries the name of the transform and the cause
Wrapped(transform, raised) ==
    IF raised.exc = "PreprocessingError" THEN raised
    ELSE PreprocessingError(transform.cls, raised)

\* a run that feeds every transform the dataset the run was started with
pipe_step_input_original(data, input) == input

\* the dataset handed to the next transform: the output of the previous one
pipe_step_input(data, input) == data

\* a run that steps over a transform that raised
pipe_continues_always(outcome) == TRUE

\* the run goes on to the next transform only when this one returned
pipe_continues(outcome) == outcome.exc = "none"

PipeRunning ==
    pipe_log # << >> /\ pipe_log[Len(pipe_log)][1] = "start"

IdleFanOut ==
    /\ fan_pc = << >>
    /\ fan_out = << >>
    /\ fan_order = << >>
    /\ fan_ret = NoCall

\* DataFramePipe(pipe_transforms) has been built and run(pipe_input) called
InitPipe ==
    /\ IdleDroppers
    /\ pipe_transforms \in PipeLists
    /\ pipe_input \in PipeInputs
    /\ pipe_data = pipe_input
    /\ pipe_pc = 1
    /\ pipe_log = << >>
    /\ pipe_ret = NoCall
    /\ IdleFanOut
    /\ IdleTierMapper
    /\ IdleSplitter
    /\ IdleRenamer
    /\ IdleFmt

\* the run enters the process call of the next transform of the list
PipeStart ==
    /\ pipe_ret = NoCall
    /\ ~PipeRunning
    /\ pipe_pc <= Len(pipe_transforms)
    /\ pipe_log' = Append(pipe_log, <<"start", pipe_pc>>)
    /\ UNCHANGED <<pipe_transforms, pipe_input, pipe_data, pipe_pc, pipe_ret,
                   fan_pc, fan_out, fan_order, fan_ret,
                   tierVars, splitVars, renamerVars, fmtVars, dropperVars>>

\* the process call of the running transform ends: its output becomes the
\* dataset of the run, or the run ends in the wrapped error
PipeFinish ==
    /\ pipe_ret = NoCall
    /\ PipeRunning
    /\ LET transform == pipe_transforms[pipe_pc]
           outcome == Apply(transform, pipe_step_input(pipe_data, pipe_input))
       IN  /\ pipe_log' = Append(pipe_log, <<"finish", pipe_pc>>)
           /\ IF pipe_continues(outcome)
              THEN /\ pipe_data' = IF outcome.exc = "none" THEN outcome.val
                                   ELSE pipe_data
                   /\ pipe_pc' = pipe_pc + 1
                   /\ pipe_ret' = pipe_ret
              ELSE /\ pipe_ret' = [op |-> "run",
                                   ret |-> Wrapped(transform, outcome)]
                   /\ UNCHANGED <<pipe_data, pipe_pc, dropperVars>>
    /\ UNCHANGED <<pipe_transforms, pipe_input, fan_pc, fan_out, fan_order,
                   fan_ret, tierVars, splitVars, renamerVars, fmtVars,
                   dropperVars>>

\* every transform of the list has been applied: the run returns its dataset
PipeReturn ==
    /\ pipe_ret = NoCall
    /\ ~PipeRunning
    /\ pipe_pc > Len(pipe_transforms)
    /\ pipe_ret' = [op |-> "run", ret |-> Ret(pipe_data)]
    /\ UNCHANGED <<pipe_transforms, pipe_input, pipe_data, pipe_pc, pipe_log,
                   fan_pc, fan_out, fan_order, fan_ret,
                   tierVars, splitVars, renamerVars, fmtVars, dropperVars>>

NextPipe == PipeStart \/ PipeFinish \/ PipeReturn

SpecPipe == InitPipe /\ [][NextPipe]_vars

-----------------------------------------------------------------------------
(* Fan-out mode: every branch applies its transform to its own copy of the   *)
(* input, the branches run concurrently, and their outputs are merged into   *)
(* one dataset by a union of columns keyed by name.                          *)

Branches == 1..Len(pipe_transforms)
BranchIds == 1..MaxStages

\* a merge that waits for the branches to finish, not for them to succeed
can_merge_finished(pc) == \A b \in 1..Len(pc) : pc[b] \in {"done", "failed"}

\* the merge waits until every branch has completed
can_merge(pc) == \A b \in 1..Len(pc) : pc[b] = "done"

\* a merge that takes the branches as they completed
merge_order_completion(pc, order) ==
    LET done(b) == pc[b] = "done" IN SelectSeq(order, done)

\* the branches whose outputs are merged, in the order of the merge: the
\* order of the list of branches
merge_order(pc, order) ==
    LET done(b) == pc[b] = "done"
    IN  SelectSeq([b \in 1..Len(pc) |-> b], done)

\* the columns of the outputs, one output after the other
RECURSIVE concat_columns(_, _)
concat_columns(outs, order) ==
    IF order = << >> THEN << >>
    ELSE outs[Head(order)].val \o concat_columns(outs, Tail(order))

\* the union of the columns keyed by name; two branches whose outputs hold
\* a column of the same name are a configuration error
fan_merge(outs, order) ==
    IF \E i, j \in 1..Len(order) :
           /\ i # j
           /\ NameSet(outs[order[i]].val) \cap NameSet(outs[order[j]].val) # {}
    THEN Raise("ConfigurationError")
    ELSE Ret(concat_columns(outs, order))

\* run_pipeline_with_multi_threading has been called with the branches
\* pipe_transforms and the dataset pipe_input
InitFanOut ==
    /\ IdleDroppers
    /\ pipe_transforms \in PipeLists
    /\ pipe_input \in PipeInputs
    /\ fan_pc = [b \in 1..Len(pipe_transforms) |-> "pending"]
    /\ fan_out = [b \in 1..Len(pipe_transforms) |-> NoCall]
    /\ fan_order = << >>
    /\ fan_ret = NoCall
    /\ pipe_data = << >>
    /\ pipe_pc = 0
    /\ pipe_log = << >>
    /\ pipe_ret = NoCall
    /\ IdleTierMapper
    /\ IdleSplitter
    /\ IdleRenamer
    /\ IdleFmt

\* branch b takes its copy of the input and enters its transform
BranchStart(b) ==
    /\ b \in Branches
    /\ fan_pc[b] = "pending"
    /\ fan_pc' = [fan_pc EXCEPT ![b] = "running"]
    /\ UNCHANGED <<pipe_transforms, pipe_input, pipe_data, pipe_pc, pipe_log,
                   pipe_ret, fan_out, fan_order, fan_ret,
                   tierVars, splitVars, renamerVars, fmtVars, dropperVars>>

\* the transform of branch b returns its output, or raises
BranchFinish(b) ==
    /\ b \in Branches
    /\ fan_pc[b] = "running"
    /\ LET outcome == Apply(pipe_transforms[b], pipe_input)
       IN  /\ fan_out' = [fan_out EXCEPT ![b] = outcome]
           /\ fan_pc' = [fan_pc EXCEPT
                            ![b] = IF outcome.exc = "none" THEN "done"
                                   ELSE "failed"]
    /\ fan_order' = Append(fan_order, b)
    /\ UNCHANGED <<pipe_transforms, pipe_input, pipe_data, pipe_pc, pipe_log,
                   pipe_ret, fan_ret, tierVars, splitVars, renamerVars,
                   fmtVars, dropperVars>>

\* the fan-out ends in the error of a branch that failed
FanOutAbort(b) ==
    /\ b \in Branches
    /\ fan_ret = NoCall
    /\ fan_pc[b] = "failed"
    /\ fan_ret' = [op |-> "run",
                   ret |-> Wrapped(pipe_transforms[b], fan_out[b])]
    /\ UNCHANGED <<pipe_transforms, pipe_input, pipe_data, pipe_pc, pipe_log,
                   pipe_ret, fan_pc, fan_out, fan_order,
                   tierVars, splitVars, renamerVars, fmtVars, dropperVars>>

\* the fan-out ends in the merged dataset
FanOutMerge ==
    /\ fan_ret = NoCall
    /\ can_merge(fan_pc)
    /\ fan_ret' = [op |-> "run",
                   ret |-> fan_merge(fan_out, merge_order(fan_pc, fan_order))]
    /\ UNCHANGED <<pipe_transforms, pipe_input, pipe_data, pipe_pc, pipe_log,
                   pipe_ret, fan_pc, fan_out, fan_order,
                   tierVars, splitVars, renamerVars, fmtVars, dropperVars>>

NextFanOut ==
    \/ \E b \in BranchIds : BranchStart(b)
    \/ \E b \in BranchIds : BranchFinish(b)
    \/ \E b \in BranchIds : FanOutAbort(b)
    \/ FanOutMerge

SpecFanOut == InitFanOut /\ [][NextFanOut]_vars

-----------------------------------------------------------------------------
(* DominatedColumnDropper and GranularColumnDropper *)

\* DominatedColumnDropper(dominance_threshold, ignore_cols)
dominated_column_dropper_init(dominance_threshold, ignore_cols) ==
    [exists |-> TRUE,
     dominance_threshold |-> dominance_threshold,
     ignore_cols |-> ignore_cols]

\* GranularColumnDropper(threshold, list_of_cols)
granular_column_dropper_init(threshold, list_of_cols) ==
    [exists |-> TRUE, threshold |-> threshold, list_of_cols |-> list_of_cols]

\* df_out[col].isna().sum()
nan_sum(series) == Cardinality({i \in 1..Len(series) : series[i] = NaN})

\* df_out[col].value_counts(): the counts of the values that are not missing,
\* largest first
value_counts(series) ==
    LET values == {series[i] : i \in 1..Len(series)} \ {NaN}
    IN  [value \in values |->
            Cardinality({i \in 1..Len(series) : series[i] = value})]

\* value_counts().iloc[0]: the largest count, IndexError when there is none
value_counts_first(series) ==
    LET counts == value_counts(series)
    IN  IF DOMAIN counts = {} THEN Raise("IndexError")
        ELSE Ret(CHOOSE n \in {counts[v] : v \in DOMAIN counts} :
                    \A v \in DOMAIN counts : counts[v] <= n)

\* count / df_out.shape[0] > self.dominance_threshold
dominates_strictly(count, shape0, dominance_threshold) ==
    RLt(dominance_threshold, Rat(count, shape0))

\* count / df_out.shape[0] >= self.dominance_threshold
dominates(count, shape0, dominance_threshold) ==
    RLe(dominance_threshold, Rat(count, shape0))

\* the body of the loop over cols_to_check, for one column: does the column
\* go to col_to_remove.  With no rows both quotients are nan, no comparison
\* with nan is true, and value_counts() is empty.
dominated_column(self, df_out, col) ==
    LET series == Column(df_out, col)
        shape0 == NumRows(df_out)
        first == value_counts_first(series)
    IN  IF shape0 = 0 THEN Raise("IndexError")
        ELSE IF dominates(nan_sum(series), shape0, self.dominance_threshold)
        THEN Ret(TRUE)
        ELSE IF first.exc # "none" THEN first
        ELSE Ret(dominates(first.val, shape0, self.dominance_threshold))

\* for col in cols_to_check: ... col_to_remove.append(col)
RECURSIVE dominated_loop(_, _, _, _)
dominated_loop(self, df_out, cols_to_check, col_to_remove) ==
    IF cols_to_check = << >> THEN Ret(col_to_remove)
    ELSE LET col == Head(cols_to_check)
             r == dominated_column(self, df_out, col)
         IN  IF r.exc # "none" THEN r
             ELSE dominated_loop(self, df_out, Tail(cols_to_check),
                                 IF r.val THEN Append(col_to_remove, col)
                                 ELSE col_to_remove)

\* [x for x in columns if x not in cols]
RECURSIVE columns_not_in(_, _)
columns_not_in(columns, cols) ==
    IF columns = << >> THEN << >>
    ELSE IF \E i \in 1..Len(cols) : cols[i] = Head(columns)
         THEN columns_not_in(Tail(columns), cols)
         ELSE <<Head(columns)>> \o columns_not_in(Tail(columns), cols)

\* df.drop(cols, axis=1): the frame without the columns named in cols
RECURSIVE drop(_, _)
drop(df, cols) ==
    IF df = << >> THEN << >>
    ELSE IF \E i \in 1..Len(cols) : cols[i] = Head(df)[1]
         THEN drop(Tail(df), cols)
         ELSE <<Head(df)>> \o drop(Tail(df), cols)

\* DominatedColumnDropper.process(data): works on a deep copy of data
dominated_process(self, data) ==
    LET df_out == data
        cols_to_check == columns_not_in(ColumnNames(df_out), self.ignore_cols)
        col_to_remove == dominated_loop(self, df_out, cols_to_check, << >>)
    IN  IF col_to_remove.exc # "none"
        THEN PreprocessingError("DominatedColumnDropper", col_to_remove)
        ELSE Ret(drop(df_out, col_to_remove.val))

\* len(df_copy[col].unique()): a missing cell counts as one more value
unique_len(series) == Cardinality({series[i] : i \in 1..Len(series)})

\* len(df_copy[col].unique()) / df_copy.shape[0] > self.threshold
granular_column(self, df_copy, col) ==
    IF NumRows(df_copy) = 0 THEN Raise("ZeroDivisionError")
    ELSE Ret(RLt(self.threshold,
                 Rat(unique_len(Column(df_copy, col)), NumRows(df_copy))))

\* for col in columns_to_evaluate: ... cols_to_drop.append(col)
RECURSIVE granular_loop(_, _, _, _)
granular_loop(self, df_copy, columns_to_evaluate, cols_to_drop) ==
    IF columns_to_evaluate = << >> THEN Ret(cols_to_drop)
    ELSE LET col == Head(columns_to_evaluate)
             r == granular_column(self, df_copy, col)
         IN  IF r.exc # "none" THEN r
             ELSE granular_loop(self, df_copy, Tail(columns_to_evaluate),
                                IF r.val THEN Append(cols_to_drop, col)
                                ELSE cols_to_drop)

\* list(set(self.list_of_cols).intersection(set(df_copy.columns))) when the
\* list is not empty, df_copy.columns otherwise; the set is listed here in
\* column order, the order has no effect on which columns are dropped
columns_to_evaluate(self, df_copy) ==
    IF Len(self.list_of_cols) > 0
    THEN LET others ==
                 columns_not_in(ColumnNames(df_copy), self.list_of_cols)
         IN  columns_not_in(ColumnNames(df_copy), others)
    ELSE ColumnNames(df_copy)

\* GranularColumnDropper.process(df, create_copy)
granular_process(self, df, create_copy) ==
    LET df_copy == IF create_copy
                   THEN (IF ~is_data_size_small(df) THEN df ELSE df)
                   ELSE df
        cols_to_drop ==
            granular_loop(self, df_copy, columns_to_evaluate(self, df_copy),
                          << >>)
    IN  IF cols_to_drop.exc # "none"
        THEN PreprocessingError("GranularColumnDropper", cols_to_drop)
        ELSE Ret(drop(df_copy, cols_to_drop.val))

-----------------------------------------------------------------------------
(* The column droppers under test *)

\* thresholds on the grid k/ThreshDen, from 0 to (ThreshDen + 1)/ThreshDen
Thresholds == {Rat(k, ThreshDen) : k \in 0..(ThreshDen + 1)}

\* ignore_cols and list_of_cols: lists of names, a repeat and a name that no
\* frame has among them
IgnoreLists == {<< >>, <<<<"c">>>>, <<<<"a">>, <<"b">>>>}
EvaluateLists ==
    {<< >>, <<<<"a">>>>, <<<<"b">>, <<"z">>>>, <<<<"a">>, <<"a">>, <<"c">>>>}

\* frames of four rows whose columns take every fraction of the grid of
\* quarters, a frame without columns and a frame without rows
DropperFrames ==
    LET MostlyOne == <<Num(1), Num(1), Num(1), Num(2)>>
        HalfOne == <<Num(1), Num(1), Num(2), Num(2)>>
        ConstantOne == <<Num(1), Num(1), Num(1), Num(1)>>
        HalfMissing == <<NaN, NaN, Num(1), Num(2)>>
        AllMissing == <<NaN, NaN, NaN, NaN>>
        AllDistinct == <<Num(1), Num(2), Num(3), Num(4)>>
    IN  {<< >>,
         <<<<<<"a">>, << >>>>>>,
         <<<<<<"a">>, MostlyOne>>, <<<<"b">>, HalfOne>>,
           <<<<"c">>, ConstantOne>>>>,
         <<<<<<"a">>, HalfMissing>>, <<<<"b">>, AllDistinct>>>>,
         <<<<<<"a">>, AllMissing>>, <<<<"c">>, HalfOne>>>>,
         <<<<<<"c">>, HalfMissing>>, <<<<"a">>, ConstantOne>>,
           <<<<"b">>, MostlyOne>>>>}

InitDroppers ==
    /\ IdleTierMapper
    /\ IdleSplitter
    /\ IdleRenamer
    /\ IdleFmt
    /\ IdlePipeline
    /\ dom_dropper \in {dominated_column_dropper_init(t, cols) :
                            t \in Thresholds, cols \in IgnoreLists}
    /\ dom_ret = NoCall
    /\ gran_dropper \in {granular_column_dropper_init(t, cols) :
                             t \in Thresholds, cols \in EvaluateLists}
    /\ gran_ret = NoCall

\* dominated_column_dropper.process(data)
DominatedProcess(data) ==
    /\ dom_ret' = [op |-> "process", arg |-> data,
                   ret |-> dominated_process(dom_dropper, data)]
    /\ UNCHANGED <<dom_dropper, gran_dropper, gran_ret, tierVars, splitVars,
                   renamerVars, fmtVars, pipeVars>>

\* granular_column_dropper.process(df, create_copy)
GranularProcess(df, create_copy) ==
    /\ gran_ret' = [op |-> "process", arg |-> df, create_copy |-> create_copy,
                    ret |-> granular_process(gran_dropper, df, create_copy)]
    /\ UNCHANGED <<dom_dropper, dom_ret, gran_dropper, tierVars, splitVars,
                   renamerVars, fmtVars, pipeVars>>

NextDroppers ==
    \/ \E data \in DropperFrames : DominatedProcess(data)
    \/ \E df \in DropperFrames, create_copy \in BOOLEAN :
           GranularProcess(df, create_copy)

SpecDroppers == InitDroppers /\ [][NextDroppers]_vars

-----------------------------------------------------------------------------
(* Claims about TierMapper.process (checked under SpecTierMapper) *)

ProcessCalled == tier_call.op = "process"

ValidMapper ==
    /\ StrictlyIncreasing(previous_tier_boundaries)
    /\ StrictlyIncreasing(new_tier_boundaries)

\* the Tier1..Tier6 boundaries of a scheme, as a sequence
Boundaries(d) == [k \in 1..6 |-> DictGet(d, TierNames[k])]

\* C1: with both schemes strictly increasing inside (0,1), two process calls
\* with scores x <= y in [0,1] return results in the same order: process is
\* monotone non-decreasing.  Stated over every pair of consecutive calls.
C1_ProcessMonotone ==
    [][(/\ ProcessCalled
        /\ tier_call'.op = "process"
        /\ ValidMapper
        /\ InUnit(tier_call.score)
        /\ InUnit(tier_call'.score)
        /\ RLe(tier_call.score, tier_call'.score))
       => (/\ tier_call.ret.exc = "none"
           /\ tier_call'.ret.exc = "none"
           /\ RLe(tier_call.ret.val, tier_call'.ret.val))]_vars

\* a score strictly inside a segment has been remapped between two different
\* valid schemes, to a different value
C1_Witness ==
    /\ ProcessCalled
    /\ ValidMapper
    /\ Boundaries(previous_tier_boundaries) # Boundaries(new_tier_boundaries)
    /\ RLt(<<2, 5>>, tier_call.score) /\ RLt(tier_call.score, <<1, 2>>)
    /\ tier_call.ret.exc = "none"
    /\ tier_call.ret.val # tier_call.score

\* C2: when the previous and the new scheme are the same strictly increasing
\* scheme, process returns its input for every score in [0,1]
C2_SameSchemeIdentity ==
    (/\ ProcessCalled
     /\ ValidMapper
     /\ Boundaries(previous_tier_boundaries) = Boundaries(new_tier_boundaries)
     /\ InUnit(tier_call.score))
    => tier_call.ret = Ret(tier_call.score)

\* the same scheme on both sides, a score strictly inside the Tier5 segment of
\* the fixed boundaries (0.6, 0.65), returned unchanged
C2_Witness ==
    /\ ProcessCalled
    /\ ValidMapper
    /\ Boundaries(previous_tier_boundaries) = Boundaries(new_tier_boundaries)
    /\ RLt(<<3, 5>>, tier_call.score) /\ RLt(tier_call.score, <<13, 20>>)
    /\ tier_call.ret = Ret(tier_call.score)

\* C3 as claimed: process applied to the previous scheme's Tier-k boundary
\* returns the new scheme's Tier-k boundary
C3_BoundaryToBoundary ==
    (ProcessCalled /\ ValidMapper)
    => \A k \in 1..6 :
          tier_call.score = Boundaries(previous_tier_boundaries)[k]
          => tier_call.ret = Ret(Boundaries(new_tier_boundaries)[k])

\* C3 amended: process reads its input in the fixed (canonical) space.  Applied
\* to the fixed Tier-k boundary it returns what map_score gives for the previous
\* scheme's Tier-k boundary under the new scheme, which is the fixed Tier-k
\* boundary again exactly when the two schemes have the same Tier-k boundary.
C3_FixedBoundaryRemap ==
    (ProcessCalled /\ ValidMapper)
    => \A k \in 1..6 :
          tier_call.score = DictGet(fixed_boundaries, TierNames[k])
          => /\ tier_call.ret.exc = "none"
             /\ tier_call.ret =
                  map_score(Boundaries(previous_tier_boundaries)[k],
                            new_tier_boundaries)
             /\ (tier_call.ret.val = tier_call.score
                 <=> Boundaries(previous_tier_boundaries)[k]
                       = Boundaries(new_tier_boundaries)[k])

\* the fixed Tier2 boundary 0.4 remapped between schemes whose Tier2
\* boundaries differ
C3_Witness ==
    /\ ProcessCalled
    /\ ValidMapper
    /\ tier_call.score = <<2, 5>>
    /\ Boundaries(previous_tier_boundaries)[2] # Boundaries(new_tier_boundaries)[2]
    /\ tier_call.ret.exc = "none"
    /\ tier_call.ret.val # <<2, 5>>

-----------------------------------------------------------------------------
(* Claims about score_to_tier (checked under SpecScoreToTier) *)

ScoreToTierCalled == tier_call.op = "score_to_tier"

DistinctValues(d) == \A i, j \in 1..Len(d) : d[i][2] = d[j][2] => i = j

\* C4: for a scheme with distinct boundaries in (0,1], score_to_tier applied to
\* a boundary value returns the tier whose boundary it is
C4_BoundaryBelongsToItsTier ==
    (/\ ScoreToTierCalled
     /\ DistinctValues(tier_boundaries)
     /\ \A v \in ValuesOf(tier_boundaries) : RLt(RZero, v) /\ RLe(v, ROne))
    => \A i \in 1..Len(tier_boundaries) :
          tier_call.score = tier_boundaries[i][2]
          => tier_call.ret = Ret(tier_boundaries[i][1])

\* a boundary that is not the largest one, in a scheme given in descending
\* order, is assigned to its own tier
C4_Witness ==
    /\ ScoreToTierCalled
    /\ Len(tier_boundaries) >= 2
    /\ DistinctValues(tier_boundaries)
    /\ \A v \in ValuesOf(tier_boundaries) : RLt(RZero, v) /\ RLe(v, ROne)
    /\ RLt(tier_boundaries[2][2], tier_boundaries[1][2])
    /\ tier_call.score = tier_boundaries[2][2]
    /\ tier_call.ret = Ret("Tier2")

\* C5: with every boundary in [0,1], a score above 1 or below 0 raises
\* ValueError; no tier is returned
C5_ScoreOutOfRangeRaises ==
    (/\ ScoreToTierCalled
     /\ \A v \in ValuesOf(tier_boundaries) : InUnit(v)
     /\ ~InUnit(tier_call.score))
    => tier_call.ret = Raise("ValueError")

\* score_to_tier(1.5, scheme) raised for a scheme with boundaries in [0,1]
C5_Witness ==
    /\ ScoreToTierCalled
    /\ Len(tier_boundaries) >= 2
    /\ DistinctValues(tier_boundaries)
    /\ \A v \in ValuesOf(tier_boundaries) : InUnit(v)
    /\ tier_call.score = <<3, 2>>
    /\ tier_call.ret = Raise("ValueError")

\* C6 as claimed: score_to_tier raises ValueError whenever a boundary of the
\* scheme lies outside [0,1], whatever the score
C6_BoundaryOutOfRangeRaises ==
    (/\ ScoreToTierCalled
     /\ \E v \in ValuesOf(tier_boundaries) : ~InUnit(v))
    => tier_call.ret = Raise("ValueError")

-----------------------------------------------------------------------------
(* Claims about _split_categorical_column (checked under SpecSplitColumn) *)

SplitColumnCalled == series_ret.op = "_split_categorical_column"

cat_series == series_ret.ret.val[1]
numerical_series == series_ret.ret.val[2]

\* the encoding table of the closed alphabet, numeric channel
TableNumeric(cell) ==
    CASE cell.t # "str" -> cell
      [] cell.v = <<"0">> -> Num(0) [] cell.v = <<"1">> -> Num(1)
      [] cell.v = <<"2">> -> Num(2) [] cell.v = <<"3">> -> Num(3)
      [] cell.v = <<"4">> -> Num(4) [] cell.v = <<"5">> -> Num(5)
      [] cell.v = <<"6">> -> Num(6) [] cell.v = <<"D">> -> Num(5)
      [] cell.v = <<"R">> -> Num(6) [] cell.v = <<"V">> -> Num(6)
      [] cell.v = <<"S">> -> Num(0) [] cell.v = <<"A">> -> Num(2)
      [] OTHER -> NaN

\* the encoding table of the closed alphabet, categorical channel
TableCategorical(cell) ==
    CASE cell.t # "str" -> cell
      [] cell.v \in {<<"0">>, <<"1">>, <<"2">>} -> NaN
      [] cell.v \in {<<"3">>, <<"4">>, <<"5">>, <<"6">>} -> Str(<<"D">>)
      [] OTHER -> cell

MappedSymbols ==
    {Str(<<c>>) : c \in CountSymbols \cup {"D", "R", "V", "S", "A"}}

\* C8 as claimed: every symbol other than 0-6, D, R, V, S, A, seen before or
\* not, has a missing numeric channel and keeps its categorical channel
C8_OtherSymbolsMissingNumeric ==
    SplitColumnCalled
    => \A i \in 1..Len(col_series) :
          col_series[i] \notin MappedSymbols
          => /\ numerical_series[i] = NaN
             /\ cat_series[i] = col_series[i]

-----------------------------------------------------------------------------
(* Claims about CategoricalColumnSplitter.process (checked under SpecSplitter) *)

SplitterCalled == split_ret.op = "process"

Configured == {categorical_columns_to_split[i] :
                 i \in 1..Len(categorical_columns_to_split)}
\* the configured columns whose name has 'QCB' somewhere in it
ConfiguredWithMarker ==
    {col \in Configured :
        \E i \in 1..Len(col) :
           i + 2 <= Len(col) /\ <<col[i], col[i + 1], col[i + 2]>> = <<"Q", "C", "B">>}

\* C9: when process returns, the frame has the input's columns in place,
\* followed by one "<col>_num" column per configured column with the marker;
\* each such original column holds the categorical channel of its input cells
\* and every other column has its input cells; a configured column without
\* the marker never makes process raise
C9_ProcessFrame ==
    SplitterCalled
    => /\ split_ret.ret.exc # "none"
          => \E col \in ConfiguredWithMarker : ~HasColumn(df_before, col)
       /\ split_ret.ret.exc = "none"
          => LET out == split_ret.ret.val
             IN  /\ NameSet(out) =
                      NameSet(df_before) \cup {NumName(col) : col \in ConfiguredWithMarker}
                 /\ Len(out) = Len(df_before) + Cardinality(ConfiguredWithMarker)
                 /\ \A i \in 1..Len(df_before) :
                       /\ out[i][1] = df_before[i][1]
                       /\ out[i][2] =
                            IF df_before[i][1] \in ConfiguredWithMarker
                            THEN [r \in 1..Len(df_before[i][2]) |->
                                     TableCategorical(df_before[i][2][r])]
                            ELSE df_before[i][2]

\* process returned for a frame holding a configured column with the marker
\* and a configured column without it
C9_Witness ==
    /\ SplitterCalled
    /\ split_ret.ret.exc = "none"
    /\ categorical_columns_to_split = << <<"a", "g", "e">>, <<"Q", "C", "B", "1">> >>
    /\ ColumnNames(df_before) = << <<"Q", "C", "B", "1">>, <<"a", "g", "e">> >>
    /\ df_before[1][2] = <<Str(<<"0">>), Str(<<"3">>)>>
    /\ Len(split_ret.ret.val) = 3
    /\ split_ret.ret.val[1][2] = <<NaN, Str(<<"D">>)>>

-----------------------------------------------------------------------------
(* Claims about ColumnRenamer (checked under SpecRenamer) *)

\* C10: constructing a ColumnRenamer with a name_mapping that is not a dict
\* raises TypeError and makes no instance, so every instance holds a dict and
\* process never runs with anything else
C10_NonMappingFailsAtConstruction ==
    /\ (renamer_ret.op = "__init__" /\ ~IsDict(renamer_ret.arg))
       => renamer_ret.ret = Raise("TypeError")
    /\ renamer.exists => IsDict(renamer.name_mapping)
    /\ renamer_ret.op = "process"
       => (IsDict(renamer.name_mapping) /\ renamer_ret.ret.exc = "none")

\* ColumnRenamer([...]) raised TypeError and there is no instance
C10_Witness ==
    /\ renamer_ret.op = "__init__"
    /\ renamer_ret.arg.type = "list"
    /\ renamer_ret.ret = Raise("TypeError")
    /\ ~renamer.exists

-----------------------------------------------------------------------------
(* Claims about the fmt transformers (checked under SpecFmt) *)

ValidFmt(fmt) == fmt \in {"speedy", "flat"}

\* C11: an orientation fmt other than 'speedy' or 'flat' given to
\* ColumnDotRenamer, ColumnFiller or LowerCaseTransformer fails in the
\* constructor: the constructor call raises, and no process call ever runs on
\* an instance that holds such a fmt.
C11_BadFmtFailsAtConstruction ==
    /\ (transformer_ret.op = "__init__" /\ ~ValidFmt(transformer_ret.arg.fmt))
           => transformer_ret.ret.exc # "none"
    /\ transformer_ret.op = "process" => ValidFmt(transformer.fmt)

-----------------------------------------------------------------------------
(* Claims about the TierMapper's configuration (checked under SpecTierMapper) *)

\* C12: the configuration of a TierMapper is immutable after construction:
\* no call changes the keys or the values of the previous or of the new
\* scheme, which are the caller's dictionaries.
C12_SchemesImmutable ==
    [][/\ previous_tier_boundaries' = previous_tier_boundaries
       /\ new_tier_boundaries' = new_tier_boundaries]_vars

\* a Tier1..Tier6 boundary of the scheme lies outside [0,1]
BoundaryOutsideUnit(d) == \E k \in 1..6 : ~InUnit(DictGet(d, TierNames[k]))

\* the Tier1..Tier6 boundaries of the scheme are unsorted or two adjacent
\* ones are equal
NotIncreasing(d) ==
    \E k \in 1..5 : RLe(DictGet(d, TierNames[k + 1]), DictGet(d, TierNames[k]))

\* C19: process raises, and returns no score, whenever the input score is
\* outside [0,1], a boundary of either scheme is outside [0,1], or the
\* boundaries of either scheme are not strictly increasing.
C19_DomainErrorRaised ==
    (/\ ProcessCalled
     /\ \/ ~InUnit(tier_call.score)
        \/ BoundaryOutsideUnit(previous_tier_boundaries)
        \/ BoundaryOutsideUnit(new_tier_boundaries)
        \/ NotIncreasing(previous_tier_boundaries)
        \/ NotIncreasing(new_tier_boundaries))
    => tier_call.ret.exc # "none"

-----------------------------------------------------------------------------
(* Contract claims about process, on CategoricalColumnSplitter *)
(* (checked under SpecSplitter) *)

\* C13: any failure raised inside process surfaces as a PreprocessingError
\* whose step name is the name of the failing transformer; no other kind of
\* error escapes from process.
C13_OnlyPreprocessingErrorEscapes ==
    (SplitterCalled /\ split_ret.ret.exc # "none")
        => /\ split_ret.ret.exc = "PreprocessingError"
           /\ split_ret.ret.stepName = "CategoricalColumnSplitter"

\* C14: for a dataset below the size threshold, process leaves the caller's
\* dataset as it was before the call, whether it returned or failed.
C14_CallerDatasetUnchanged ==
    (SplitterCalled /\ is_data_size_small(df_before)) => df_in = df_before

\* a configured column of the call that the dataset did not have
AbsentConfigured ==
    \E k \in 1..Len(categorical_columns_to_split) :
        ~HasColumn(df_before, categorical_columns_to_split[k])

\* the configured columns of the call that the dataset had
PresentConfigured ==
    LET present(col) == HasColumn(df_before, col)
    IN  SelectSeq(categorical_columns_to_split, present)

\* C20: a configured column that is absent from the dataset, or an empty
\* configured list, never produces an exception: process returns, and what it
\* returns is what the configured columns that are present give.
C20_AbsentColumnNeverRaises ==
    (SplitterCalled /\ (AbsentConfigured \/ categorical_columns_to_split = << >>))
        => /\ split_ret.ret.exc = "none"
           /\ split_ret.ret = split_process(PresentConfigured, df_before)

-----------------------------------------------------------------------------
(* Claims about the sequential pipeline run (checked under SpecPipe) *)

PipeReturned == pipe_ret.op = "run"

\* T_n(... T_2(T_1(data))): the transforms applied one to the output of the
\* other in list order, as far as they return
RECURSIVE Composed(_, _)
Composed(transforms, data) ==
    IF transforms = << >> THEN Ret(data)
    ELSE LET before == Composed(SubSeq(transforms, 1, Len(transforms) - 1), data)
         IN  IF before.exc # "none" THEN before
             ELSE Apply(transforms[Len(transforms)], before.val)

\* the log reads start 1, finish 1, start 2, finish 2, ...
InListOrder ==
    \A k \in 1..Len(pipe_log) :
        pipe_log[k] = <<IF k % 2 = 1 THEN "start" ELSE "finish", (k + 1) \div 2>>

\* C15: a sequential run applies the transforms strictly in list order, no
\* transform starting before its predecessor has finished; each transform
\* receives the output of the previous one, so a run of [T1, T2] that
\* returns gives T2 applied to the result of T1 applied to the input.
C15_SequentialComposition ==
    /\ InListOrder
    /\ ~PipeReturned
          => Ret(pipe_data) =
                Composed(SubSeq(pipe_transforms, 1, Len(pipe_log) \div 2),
                         pipe_input)
    /\ (PipeReturned /\ pipe_ret.ret.exc = "none")
          => pipe_ret.ret = Composed(pipe_transforms, pipe_input)

\* a run of two transforms returned, and neither the other order nor the
\* second transform alone gives its result
C15_Witness ==
    /\ PipeReturned
    /\ pipe_ret.ret.exc = "none"
    /\ Len(pipe_transforms) = 2
    /\ pipe_log = <<<<"start", 1>>, <<"finish", 1>>, <<"start", 2>>, <<"finish", 2>>>>
    /\ pipe_ret.ret # Composed(<<pipe_transforms[2], pipe_transforms[1]>>, pipe_input)
    /\ pipe_ret.ret # Apply(pipe_transforms[2], pipe_input)

\* the transform at position i is the first of the list whose process raises
FailsAt(i) ==
    /\ Composed(SubSeq(pipe_transforms, 1, i - 1), pipe_input).exc = "none"
    /\ Composed(SubSeq(pipe_transforms, 1, i), pipe_input).exc # "none"

\* C16: when a transform of a sequential run fails, no later transform of
\* the list is ever started, and the run ends, with the failure, in the
\* PreprocessingError that names the failing transform: no dataset is
\* returned.
C16_FailureAborts ==
    \A i \in 1..Len(pipe_transforms) :
        FailsAt(i)
          => /\ \A k \in 1..Len(pipe_log) : pipe_log[k][2] <= i
             /\ (\E k \in 1..Len(pipe_log) : pipe_log[k] = <<"finish", i>>)
                   => PipeReturned
             /\ PipeReturned
                   => /\ pipe_ret.ret.exc = "PreprocessingError"
                      /\ pipe_ret.ret.stepName = pipe_transforms[i].cls
                      /\ pipe_log[Len(pipe_log)] = <<"finish", i>>

\* a run of two transforms ended in the error of the first: the second was
\* never started
C16_Witness ==
    /\ Len(pipe_transforms) = 2
    /\ FailsAt(1)
    /\ PipeReturned
    /\ pipe_ret.ret.exc = "PreprocessingError"
    /\ pipe_ret.ret.message = Raise("KeyError")
    /\ pipe_log = <<<<"start", 1>>, <<"finish", 1>>>>

-----------------------------------------------------------------------------
(* Claims about the fan-out run (checked under SpecFanOut) *)

FanOutReturned == fan_ret.op = "run"

\* what the transform of branch b gives on the input of the fan-out
BranchOutcome(b) == Apply(pipe_transforms[b], pipe_input)

AllBranchesSucceed == \A b \in Branches : BranchOutcome(b).exc = "none"

\* no two branches give a column of the same name
ColumnDisjoint ==
    \A a, b \in Branches :
        a # b => NameSet(BranchOutcome(a).val) \cap NameSet(BranchOutcome(b).val) = {}

\* the outputs of the branches side by side, in the order of the list
RECURSIVE SideBySide(_, _)
SideBySide(transforms, data) ==
    IF transforms = << >> THEN << >>
    ELSE SideBySide(SubSeq(transforms, 1, Len(transforms) - 1), data)
            \o Apply(transforms[Len(transforms)], data).val

\* C17: a dataset is merged only after all branches have completed; with
\* column-disjoint branches that all succeed the fan-out ends in a dataset
\* whose columns are exactly the union of the branches' output columns and
\* which is fixed by the branches and the input alone, so it is the same for
\* every interleaving and every completion order.
C17_MergeIsUnion ==
    /\ (FanOutReturned /\ fan_ret.ret.exc = "none")
          => \A b \in Branches : fan_pc[b] = "done"
    /\ (FanOutReturned /\ AllBranchesSucceed /\ ColumnDisjoint)
          => /\ fan_ret.ret.exc = "none"
             /\ NameSet(fan_ret.ret.val) =
                   UNION {NameSet(BranchOutcome(b).val) : b \in Branches}
             /\ fan_ret.ret.val = SideBySide(pipe_transforms, pipe_input)

\* two column-disjoint branches with columns to give were merged, the second
\* having completed before the first
C17_Witness ==
    /\ FanOutReturned
    /\ fan_ret.ret.exc = "none"
    /\ Len(pipe_transforms) = 2
    /\ fan_order = <<2, 1>>
    /\ ColumnDisjoint
    /\ \A b \in Branches : fan_out[b].val # << >>
    /\ Len(fan_ret.ret.val) = Len(fan_out[1].val) + Len(fan_out[2].val)

\* C18: if any branch fails, the fan-out never ends in a dataset, merged from
\* all or from some of the branches: when it has ended, it has ended in the
\* error of a branch that failed.
C18_BranchFailureFailsFanOut ==
    (FanOutReturned /\ \E b \in Branches : fan_pc[b] = "failed")
        => /\ fan_ret.ret.exc # "none"
           /\ \E b \in Branches :
                 /\ fan_pc[b] = "failed"
                 /\ \/ fan_ret.ret = fan_out[b]
                    \/ /\ fan_ret.ret.exc = "PreprocessingError"
                       /\ fan_ret.ret.message = fan_out[b]

\* the fan-out ended in the KeyError of its second branch after its first
\* branch had completed with a dataset
C18_Witness ==
    /\ FanOutReturned
    /\ Len(pipe_transforms) = 2
    /\ fan_order = <<1, 2>>
    /\ fan_pc = <<"done", "failed">>
    /\ fan_out[1].val # << >>
    /\ fan_ret.ret.exc = "PreprocessingError"
    /\ fan_ret.ret.message = Raise("KeyError")

-----------------------------------------------------------------------------
(* Claims about _unmap_score and map_score (checked under SpecTierCalls) *)

UnmapCalled == tier_call.op = "_unmap_score"
MapCalled == tier_call.op = "map_score"

\* the Tier-k boundary of the fixed (canonical) scheme
FixedBoundary(k) == DictGet(fixed_boundaries, TierNames[k])
\* the Tier-k boundary of the caller's scheme
SchemeBoundary(k) == DictGet(tier_boundaries, TierNames[k])

\* C21 as stated: for a strictly increasing scheme, the unmap operation
\* takes the scheme's Tier-k boundary to the fixed Tier-k boundary, and the
\* map operation takes the fixed Tier-k boundary to the scheme's Tier-k
\* boundary.
C21_UnmapSchemeToCanonical ==
    StrictlyIncreasing(tier_boundaries)
      => \A k \in 1..6 :
            /\ (UnmapCalled /\ tier_call.score = SchemeBoundary(k))
                  => tier_call.ret = Ret(FixedBoundary(k))
            /\ (MapCalled /\ tier_call.score = FixedBoundary(k))
                  => tier_call.ret = Ret(SchemeBoundary(k))

\* C21 (amended): for a strictly increasing scheme, _unmap_score takes the
\* fixed Tier-k boundary to the scheme's Tier-k boundary (segments chosen by
\* the fixed boundaries), and map_score takes the scheme's Tier-k boundary
\* to the fixed Tier-k boundary (segments chosen by the scheme's boundaries).
C21_UnmapCanonicalToScheme ==
    StrictlyIncreasing(tier_boundaries)
      => \A k \in 1..6 :
            /\ (UnmapCalled /\ tier_call.score = FixedBoundary(k))
                  => tier_call.ret = Ret(SchemeBoundary(k))
            /\ (MapCalled /\ tier_call.score = SchemeBoundary(k))
                  => tier_call.ret = Ret(FixedBoundary(k))

\* _unmap_score(0.5, scheme) returned the Tier3 boundary of a scheme whose
\* Tier3 boundary is not 0.5
C21_Witness ==
    /\ UnmapCalled
    /\ StrictlyIncreasing(tier_boundaries)
    /\ tier_call.score = FixedBoundary(3)
    /\ SchemeBoundary(3) # FixedBoundary(3)
    /\ tier_call.ret = Ret(SchemeBoundary(3))

\* the six-tier scheme with the fixed boundaries
ReferenceScheme == SubSeq(fixed_boundaries, 1, 6)

\* C25: tier membership is preserved by map_score: for a strictly
\* increasing scheme s inside (0,1) and a score x in (0,1],
\* score_to_tier(x, s) equals score_to_tier(map_score(x, s), fixed scheme).
C25_MapKeepsTier ==
    (/\ MapCalled
     /\ StrictlyIncreasing(tier_boundaries)
     /\ RLt(RZero, tier_call.score)
     /\ RLe(tier_call.score, ROne))
    => /\ tier_call.ret.exc = "none"
       /\ score_to_tier(tier_call.score, SubSeq(tier_boundaries, 1, 6)) =
             score_to_tier(tier_call.ret.val, ReferenceScheme)
       /\ score_to_tier(tier_call.score, SubSeq(tier_boundaries, 1, 6)).exc = "none"

\* a score on the Tier4 boundary of a scheme was mapped to another score,
\* and both are in Tier4
C25_Witness ==
    /\ MapCalled
    /\ StrictlyIncreasing(tier_boundaries)
    /\ tier_call.score = SchemeBoundary(4)
    /\ tier_call.ret.exc = "none"
    /\ tier_call.ret.val # tier_call.score
    /\ score_to_tier(tier_call.score, SubSeq(tier_boundaries, 1, 6)) = Ret("Tier4")
    /\ score_to_tier(tier_call.ret.val, ReferenceScheme) = Ret("Tier4")

-----------------------------------------------------------------------------
(* A further claim about score_to_tier (checked under SpecScoreToTier) *)

\* the boundaries of the dict are sorted, distinct and inside (0,1)
SortedDistinctInside(d) ==
    /\ \A i, j \in 1..Len(d) : i < j => RLt(d[i][2], d[j][2])
    /\ \A v \in ValuesOf(d) : RLt(RZero, v) /\ RLt(v, ROne)

\* C22: for a scheme with sorted distinct boundaries in (0,1) and a score in
\* the closed range [0,1], the score 0 included, score_to_tier returns a tier
\* label and does not raise.
C22_EveryUnitScoreHasTier ==
    (/\ ScoreToTierCalled
     /\ SortedDistinctInside(tier_boundaries)
     /\ InUnit(tier_call.score))
    => tier_call.ret.exc = "none"

-----------------------------------------------------------------------------
(* Further claims about CategoricalColumnSplitter.process *)
(* (checked under SpecSplitter) *)

\* C23: when process fails part-way, no partial result exists: the caller's
\* dataset is cell for cell what it was before the call.
C23_NoPartialResult ==
    (SplitterCalled /\ split_ret.ret.exc # "none") => df_in = df_before

\* C26: for an input dataset with unique column names, whatever the
\* configured list, the dataset process returns has no two columns with the
\* same name.
C26_OutputNamesUnique ==
    (/\ SplitterCalled
     /\ split_ret.ret.exc = "none"
     /\ NoRepeat(ColumnNames(df_before)))
    => NoRepeat(ColumnNames(split_ret.ret.val))

-----------------------------------------------------------------------------
(* Claims about the column droppers (checked under SpecDroppers) *)

DominatedCalled == dom_ret.op = "process"
GranularCalled == gran_ret.op = "process"
DominatedReturned == DominatedCalled /\ dom_ret.ret.exc = "none"
GranularReturned == GranularCalled /\ gran_ret.ret.exc = "none"

\* count/rows >= t and count/rows > t for a threshold t = <<n, d>>, d > 0
FractionAtLeast(count, rows, t) == count * t[2] >= t[1] * rows
FractionAbove(count, rows, t) == count * t[2] > t[1] * rows
FractionEquals(count, rows, t) == count * t[2] = t[1] * rows

Occurrences(series, cell) ==
    Cardinality({i \in 1..Len(series) : series[i] = cell})
MissingCount(series) == Occurrences(series, NaN)
\* how often the most frequent value that is not missing occurs
MostFrequentCount(series) ==
    CHOOSE n \in 0..Len(series) :
        /\ \A i \in 1..Len(series) :
               series[i] # NaN => Occurrences(series, series[i]) <= n
        /\ \/ n = 0
           \/ \E i \in 1..Len(series) :
                  series[i] # NaN /\ Occurrences(series, series[i]) = n
DistinctCount(series) == Cardinality({series[i] : i \in 1..Len(series)})

Ignored(col) ==
    \E i \in 1..Len(dom_dropper.ignore_cols) : dom_dropper.ignore_cols[i] = col
Evaluated(col) ==
    \/ gran_dropper.list_of_cols = << >>
    \/ \E i \in 1..Len(gran_dropper.list_of_cols) :
           gran_dropper.list_of_cols[i] = col

Dominated(series) ==
    \/ FractionAtLeast(MissingCount(series), Len(series),
                       dom_dropper.dominance_threshold)
    \/ FractionAtLeast(MostFrequentCount(series), Len(series),
                       dom_dropper.dominance_threshold)
Granular(series) ==
    FractionAbove(DistinctCount(series), Len(series), gran_dropper.threshold)

\* out holds the columns of data that are not dropped, as they were, in order
KeepsTheRest(data, out) ==
    /\ NameSet(out) \subseteq NameSet(data)
    /\ \A i, j \in 1..Len(out) :
           i < j => \E k, l \in 1..Len(data) :
                        k < l /\ data[k] = out[i] /\ data[l] = out[j]
    /\ \A i \in 1..Len(out) : \E k \in 1..Len(data) : data[k] = out[i]

=============================================================================
